---- MODULE Spec2Model ----
(***************************************************************************)
(* COMET II emulator: the instruction execution engine (Machine and its    *)
(* MachineInstruction handlers), the Word Store (Memory) and the Register  *)
(* File (Register), with the run-to-completion loop and the interactive    *)
(* line driver, and the two-pass assembler (Compiler and LineAnalyzer).    *)
(*                                                                         *)
(* JavaScript numbers are modelled by integers.  The two non-integer       *)
(* values that the engine can meet, undefined (a read of a Memory key that *)
(* was never set) and NaN (arithmetic on undefined), are modelled by two   *)
(* reserved integers outside the range any run of the model reaches.       *)
(* A string is the sequence of its UTF-16 code units.                      *)
(***************************************************************************)
EXTENDS Integers, Sequences, FiniteSets, TLC

VARIABLES memory, gr, flags, pc, out, runState, mode, last, trace, ref, driver, compiler, shared

vars == <<memory, gr, flags, pc, out, runState, mode, last, trace, ref, driver, compiler, shared>>

(***************************************************************************)
(* JavaScript values and operators                                         *)
(***************************************************************************)
undefined == -1000001

NaN == -1000002

IsNumber(v) == v # undefined /\ v # NaN

JsAdd(a, b) == IF IsNumber(a) /\ IsNumber(b) THEN a + b ELSE NaN

JsSub(a, b) == IF IsNumber(a) /\ IsNumber(b) THEN a - b ELSE NaN

\* ToInt32 of a value: undefined and NaN convert to 0.
ToInt(v) == IF IsNumber(v) THEN v ELSE 0

\* Bitwise AND of two integers in two's complement.
RECURSIVE BitAnd(_, _)
BitAnd(a, b) ==
    IF a = 0 \/ b = 0 THEN 0
    ELSE IF a = -1 THEN b
    ELSE IF b = -1 THEN a
    ELSE (a % 2) * (b % 2) + 2 * BitAnd(a \div 2, b \div 2)

JsAnd(a, b) == BitAnd(ToInt(a), ToInt(b))

\* String.fromCharCode: the code unit is ToUint16 of the argument.
fromCharCode(v) == ToInt(v) % 65536

\* The hexadecimal digits of Number.prototype.toString(16).
HexDigit(d) == <<"0","1","2","3","4","5","6","7","8","9","a","b","c","d","e","f">>[d + 1]

RECURSIVE HexString(_)
HexString(n) ==
    IF n < 0 THEN <<"-">> \o HexString(0 - n)
    ELSE IF n < 16 THEN <<HexDigit(n)>>
    ELSE HexString(n \div 16) \o <<HexDigit(n % 16)>>

Last4(s) == IF Len(s) <= 4 THEN s ELSE SubSeq(s, Len(s) - 3, Len(s))

\* toWordHex(num): ('0000' + num.toString(16)).slice(-4).  It is applied
\* only to a value that is not undefined (undefined has no toString).
toWordHex(num) ==
    Last4(<<"0","0","0","0">> \o (IF num = NaN THEN <<"N","a","N">> ELSE HexString(num)))

\* String.prototype.trim on a sequence of code units.
WhiteSpace == {9, 10, 13, 32}

RECURSIVE TrimLeft(_)
TrimLeft(s) == IF s # <<>> /\ Head(s) \in WhiteSpace THEN TrimLeft(Tail(s)) ELSE s

RECURSIVE TrimRight(_)
TrimRight(s) ==
    IF s # <<>> /\ s[Len(s)] \in WhiteSpace THEN TrimRight(SubSeq(s, 1, Len(s) - 1)) ELSE s

Trim(s) == TrimRight(TrimLeft(s))

(***************************************************************************)
(* Word Store (Memory) and Register File (Register)                        *)
(***************************************************************************)
\* Memory.getValueAt: this.values[address]
getValueAt(mem, address) == IF address \in DOMAIN mem THEN mem[address] ELSE undefined

\* Memory.setValueAt: this.values[address] = value
setValueAt(mem, address, value) ==
    [a \in (DOMAIN mem) \cup {address} |-> IF a = address THEN value ELSE mem[a]]

\* Register.gRKeyNameOf accepts exactly the indices of GR0..GR7.
GENERAL_REGISTER_NAMES == 0..7

validGR(index) == index \in GENERAL_REGISTER_NAMES

\* Register.setFlags(o, s, z)
registerSetFlags(o, s, z) == [OF |-> o, SF |-> s, ZF |-> z]

\* The Register File after construction.
NewRegisterGR == [i \in GENERAL_REGISTER_NAMES |-> 0]

NewRegisterFlags == registerSetFlags(0, 0, 0)

(***************************************************************************)
(* Opcodes                                                                 *)
(***************************************************************************)
\* The opcodes the inline table of index.ts gives: LD 0x10, ST 0x11, CPA 0x40,
\* JZE 0x63, JMI 0x61, SUBA 0x25, JUMP 0x64, RET 0x81.
MACHINE_INSTRUCTION_NUMBER_index ==
    [LD2 |-> 16, ST2 |-> 17, CPA2 |-> 64, JZE2 |-> 99, JMI2 |-> 97, SUBA1 |-> 37,
     JUMP2 |-> 100, RET1 |-> 129]

\* The other entries of the table of ./utils, with the COMET II opcodes: LD
\* r,r 0x14, LAD 0x12, ADDA r,adr 0x20, AND r,r 0x34, AND r,adr 0x30, CPA r,r
\* 0x44, JPL 0x65, SVC 0xF0.  The engine depends on them only through the
\* dispatch table, that is, on their being distinct.
MACHINE_INSTRUCTION_NUMBER_utils ==
    [LD1 |-> 20, LAD2 |-> 18, ADDA2 |-> 32, AND1 |-> 52, AND2 |-> 48, CPA1 |-> 68,
     JPL2 |-> 101, SVC2 |-> 240]

MACHINE_INSTRUCTION_NUMBER == MACHINE_INSTRUCTION_NUMBER_index @@ MACHINE_INSTRUCTION_NUMBER_utils

(***************************************************************************)
(* MachineInstruction: operand decoding.  s is the machine state the       *)
(* handler was set up with: [pc, gr, flags, memory, out].                  *)
(***************************************************************************)
instructionWord(s) == getValueAt(s.memory, s.pc)

\* (word & 0xF0) >> 4
gR1Value(s) == (ToInt(instructionWord(s)) \div 16) % 16

\* word & 0xF
gR2OrIRValue(s) == ToInt(instructionWord(s)) % 16

addrValue(s) == getValueAt(s.memory, JsAdd(s.pc, 1))

\* addrIRAddedValue reads the index register through Register.getGRAt,
\* which fails for an index outside GR0..GR7.
addrIRFails(s) == gR2OrIRValue(s) # 0 /\ ~validGR(gR2OrIRValue(s))

addrIRAddedValue_mutant(s) == JsAdd(addrValue(s), s.gr[gR2OrIRValue(s)])

addrIRAddedValue(s) ==
    IF gR2OrIRValue(s) # 0
    THEN JsAdd(addrValue(s), s.gr[gR2OrIRValue(s)])
    ELSE addrValue(s)

setFlags_mutant(value) ==
    IF IsNumber(value) /\ value >= 0 THEN registerSetFlags(0, 0, 0)
    ELSE registerSetFlags(0, 1, 0)

setFlags_zeroKeepsSign(value) ==
    IF IsNumber(value) /\ value > 0 THEN registerSetFlags(0, 0, 0)
    ELSE IF value = 0 THEN registerSetFlags(0, 1, 1)
    ELSE registerSetFlags(0, 1, 0)

setFlags(value) ==
    IF IsNumber(value) /\ value > 0 THEN registerSetFlags(0, 0, 0)
    ELSE IF value = 0 THEN registerSetFlags(0, 0, 1)
    ELSE registerSetFlags(0, 1, 0)

(***************************************************************************)
(* What evaluate() leaves behind: the state it reached, the step it        *)
(* reported (or the error it raised), the value it computed and the        *)
(* effective address it used.                                              *)
(***************************************************************************)
Done(s, step, result, ea) ==
    [outcome |-> "ok", step |-> step, pc |-> s.pc, gr |-> s.gr, flags |-> s.flags,
     memory |-> s.memory, out |-> s.out, result |-> result, ea |-> ea, input |-> <<>>]

Raise_mutant(s, error) ==
    [outcome |-> error, step |-> 0, pc |-> JsAdd(s.pc, 1), gr |-> s.gr, flags |-> s.flags,
     memory |-> s.memory, out |-> s.out, result |-> undefined, ea |-> undefined,
     input |-> <<>>]

Raise(s, error) ==
    [outcome |-> error, step |-> 0, pc |-> s.pc, gr |-> s.gr, flags |-> s.flags,
     memory |-> s.memory, out |-> s.out, result |-> undefined, ea |-> undefined,
     input |-> <<>>]

\* The shape shared by AND, LD, SUBA and ADDA: store the result in GR1 and
\* set the flags from it.
StoreResult(s, step, result, ea) ==
    [Done(s, step, result, ea) EXCEPT !.gr = [s.gr EXCEPT ![gR1Value(s)] = result],
                                      !.flags = setFlags(result)]

regRegFails(s) == ~validGR(gR1Value(s)) \/ ~validGR(gR2OrIRValue(s))

regMemFails(s) == ~validGR(gR1Value(s)) \/ addrIRFails(s)

AND1_evaluate(s) ==
    IF regRegFails(s) THEN Raise(s, "InvalidRegister")
    ELSE StoreResult(s, 1, JsAnd(s.gr[gR1Value(s)], s.gr[gR2OrIRValue(s)]), undefined)

AND2_evaluate(s) ==
    IF regMemFails(s) THEN Raise(s, "InvalidRegister")
    ELSE StoreResult(s, 2,
             JsAnd(s.gr[gR1Value(s)], getValueAt(s.memory, addrIRAddedValue(s))),
             addrIRAddedValue(s))

LD1_mutant(s) ==
    IF regRegFails(s) THEN Raise(s, "InvalidRegister")
    ELSE [StoreResult(s, 1, s.gr[gR2OrIRValue(s)], undefined)
             EXCEPT !.gr = [s.gr EXCEPT ![gR1Value(s)] = s.gr[gR2OrIRValue(s)],
                                        ![gR2OrIRValue(s)] = s.gr[gR1Value(s)]]]

LD1_evaluate(s) ==
    IF regRegFails(s) THEN Raise(s, "InvalidRegister")
    ELSE StoreResult(s, 1, s.gr[gR2OrIRValue(s)], undefined)

LD2_evaluate(s) ==
    IF regMemFails(s) THEN Raise(s, "InvalidRegister")
    ELSE StoreResult(s, 2, getValueAt(s.memory, addrIRAddedValue(s)), addrIRAddedValue(s))

LAD2_evaluate(s) ==
    IF regMemFails(s) THEN Raise(s, "InvalidRegister")
    ELSE [Done(s, 2, undefined, addrIRAddedValue(s))
             EXCEPT !.gr = [s.gr EXCEPT ![gR1Value(s)] = addrIRAddedValue(s)]]

ST2_evaluate(s) ==
    IF regMemFails(s) THEN Raise(s, "InvalidRegister")
    ELSE [Done(s, 2, undefined, addrIRAddedValue(s))
             EXCEPT !.memory = setValueAt(s.memory, addrIRAddedValue(s), s.gr[gR1Value(s)])]

SUBA1_evaluate(s) ==
    IF regRegFails(s) THEN Raise(s, "InvalidRegister")
    ELSE StoreResult(s, 1, JsSub(s.gr[gR1Value(s)], s.gr[gR2OrIRValue(s)]), undefined)

ADDA2_evaluate(s) ==
    IF regMemFails(s) THEN Raise(s, "InvalidRegister")
    ELSE StoreResult(s, 2,
             JsAdd(s.gr[gR1Value(s)], getValueAt(s.memory, addrIRAddedValue(s))),
             addrIRAddedValue(s))

CPA1_result(s) == JsSub(s.gr[gR1Value(s)], s.gr[gR2OrIRValue(s)])

CPA1_mutant(s) ==
    IF regRegFails(s) THEN Raise(s, "InvalidRegister")
    ELSE StoreResult(s, 1, CPA1_result(s), undefined)

CPA1_evaluate(s) ==
    IF regRegFails(s) THEN Raise(s, "InvalidRegister")
    ELSE [Done(s, 1, CPA1_result(s), undefined) EXCEPT !.flags = setFlags(CPA1_result(s))]

CPA2_result(s) == JsSub(s.gr[gR1Value(s)], getValueAt(s.memory, addrIRAddedValue(s)))

CPA2_evaluate(s) ==
    IF regMemFails(s) THEN Raise(s, "InvalidRegister")
    ELSE [Done(s, 2, CPA2_result(s), addrIRAddedValue(s))
             EXCEPT !.flags = setFlags(CPA2_result(s))]

JumpIf_mutant(s, taken) ==
    IF ~taken THEN Done(s, 2, undefined, undefined)
    ELSE IF addrIRFails(s) THEN Raise(s, "InvalidRegister")
    ELSE [Done(s, 0, undefined, addrValue(s)) EXCEPT !.pc = addrValue(s)]

\* The shape shared by the jumps: reposition the program counter and report
\* step 0 when taken, report step 2 otherwise.
JumpIf(s, taken) ==
    IF ~taken THEN Done(s, 2, undefined, undefined)
    ELSE IF addrIRFails(s) THEN Raise(s, "InvalidRegister")
    ELSE [Done(s, 0, undefined, addrIRAddedValue(s)) EXCEPT !.pc = addrIRAddedValue(s)]

JUMP2_evaluate(s) == JumpIf(s, TRUE)

JZE2_mutant(s) == JumpIf(s, s.flags.ZF = 0)

JZE2_evaluate(s) == JumpIf(s, s.flags.ZF = 1)

JMI2_evaluate(s) == JumpIf(s, s.flags.SF = 1)

JPL2_evaluate(s) == JumpIf(s, s.flags.SF = 0 /\ s.flags.ZF = 0)

(***************************************************************************)
(* SVC: the bridge to the I/O collaborator.  What io.out received is the   *)
(* sequence out; a message is a record [kind, from, length, chars].        *)
(***************************************************************************)
\* '[debug] ...' prompt emitted before an input is awaited.
PromptMessage == [kind |-> "prompt", from |-> <<>>, length |-> 0, chars |-> <<>>]

\* `---\n[debug] OUT From: #${toWordHex(dataAddr)} Length: ${length}\n---`
DebugOutMessage(dataAddr, length) ==
    [kind |-> "debugOut", from |-> toWordHex(dataAddr), length |-> length, chars |-> <<>>]

\* "\n---", the text the handler appends to the decoded string.
OutTrailer == <<10, 45, 45, 45>>

\* `${result}\n---`
TextMessage(result) ==
    [kind |-> "text", from |-> <<>>, length |-> 0, chars |-> result \o OutTrailer]

SVC2_dataAddr(s) == getValueAt(s.memory, JsAdd(s.pc, 1))

SVC2_lengthAddr(s) == getValueAt(s.memory, JsAdd(s.pc, 2))

\* for (let i = 0; i < length; i++) result += String.fromCharCode(memory[dataAddr + i])
RECURSIVE SVC2_decode(_, _, _, _)
SVC2_decode(mem, dataAddr, i, length) ==
    IF IsNumber(length) /\ i < length
    THEN <<fromCharCode(getValueAt(mem, JsAdd(dataAddr, i)))>>
             \o SVC2_decode(mem, dataAddr, i + 1, length)
    ELSE <<>>

SVC2_out_mutant(s) ==
    LET length == getValueAt(s.memory, SVC2_lengthAddr(s))
    IN  IF SVC2_dataAddr(s) = undefined THEN Raise(s, "TypeError")
        ELSE [Done(s, 3, undefined, undefined)
                 EXCEPT !.out = s.out \o
                     <<DebugOutMessage(SVC2_dataAddr(s), length),
                       TextMessage(SVC2_decode(s.memory, SVC2_dataAddr(s), 1, length))>>]

\* typeValue === 2
SVC2_out(s) ==
    LET length == getValueAt(s.memory, SVC2_lengthAddr(s))
    IN  IF SVC2_dataAddr(s) = undefined THEN Raise(s, "TypeError")
        ELSE [Done(s, 3, undefined, undefined)
                 EXCEPT !.out = s.out \o
                     <<DebugOutMessage(SVC2_dataAddr(s), length),
                       TextMessage(SVC2_decode(s.memory, SVC2_dataAddr(s), 0, length))>>]

\* typeValue === 1, up to the suspension in `await this.io.in()`.
SVC2_in(s) ==
    [Done(s, 0, undefined, undefined) EXCEPT !.outcome = "awaitInput",
                                             !.out = s.out \o <<PromptMessage>>]

\* for (let i = 0; i < value.length; i++) memory.setValueAt(dataAddr + i, value[i].charCodeAt(0))
RECURSIVE SVC2_store(_, _, _, _)
SVC2_store(mem, dataAddr, i, value) ==
    IF i < Len(value)
    THEN SVC2_store(setValueAt(mem, JsAdd(dataAddr, i), value[i + 1]), dataAddr, i + 1, value)
    ELSE mem

SVC2_resume_mutant(s, value) ==
    [Done(s, 3, undefined, undefined)
        EXCEPT !.memory = setValueAt(SVC2_store(s.memory, SVC2_dataAddr(s), 1, value),
                                     SVC2_lengthAddr(s), Len(value)),
               !.input = value]

\* typeValue === 1, from the moment io.in() has delivered value.
SVC2_resume(s, value) ==
    [Done(s, 3, undefined, undefined)
        EXCEPT !.memory = setValueAt(SVC2_store(s.memory, SVC2_dataAddr(s), 0, value),
                                     SVC2_lengthAddr(s), Len(value)),
               !.input = value]

SVC2_evaluate(s) ==
    IF gR2OrIRValue(s) = 1 THEN SVC2_in(s)
    ELSE IF gR2OrIRValue(s) = 2 THEN SVC2_out(s)
    ELSE Done(s, 1, undefined, undefined)

(***************************************************************************)
(* Machine: decode and dispatch                                            *)
(***************************************************************************)
\* (memory[pc] & 0xFF00) >> 8
instructionNumber(s) == (ToInt(getValueAt(s.memory, s.pc)) \div 256) % 256

Registered == {"AND1", "AND2", "LD1", "LD2", "LAD2", "ST2", "SUBA1", "ADDA2", "CPA1",
               "CPA2", "JUMP2", "JZE2", "JMI2", "JPL2", "SVC2"}

\* The key of the static table under which opcode n is registered, "" if none.
MACHINE_INSTRUCTION_IMPLIMENTATION(n) ==
    IF \E k \in Registered : MACHINE_INSTRUCTION_NUMBER[k] = n
    THEN CHOOSE k \in Registered : MACHINE_INSTRUCTION_NUMBER[k] = n
    ELSE ""

evaluate(impl, s) ==
    CASE impl = "AND1" -> AND1_evaluate(s)
      [] impl = "AND2" -> AND2_evaluate(s)
      [] impl = "LD1" -> LD1_evaluate(s)
      [] impl = "LD2" -> LD2_evaluate(s)
      [] impl = "LAD2" -> LAD2_evaluate(s)
      [] impl = "ST2" -> ST2_evaluate(s)
      [] impl = "SUBA1" -> SUBA1_evaluate(s)
      [] impl = "ADDA2" -> ADDA2_evaluate(s)
      [] impl = "CPA1" -> CPA1_evaluate(s)
      [] impl = "CPA2" -> CPA2_evaluate(s)
      [] impl = "JUMP2" -> JUMP2_evaluate(s)
      [] impl = "JZE2" -> JZE2_evaluate(s)
      [] impl = "JMI2" -> JMI2_evaluate(s)
      [] impl = "JPL2" -> JPL2_evaluate(s)
      [] impl = "SVC2" -> SVC2_evaluate(s)

\* What one call of executeInstruction() leaves behind: what it returned
\* ("true", "false", "throws", or "pending" while it is suspended in SVC
\* input), the handler it dispatched to, how many handlers it evaluated, the
\* handler's report h (with the line io.in() delivered to it, if any) and the
\* state the call reached.
Outcome(returns, impl, evaluated, h, pcAfter) ==
    [returns |-> returns, impl |-> impl, evaluated |-> evaluated, error |-> h.outcome,
     step |-> h.step, handlerPc |-> h.pc, result |-> h.result, ea |-> h.ea,
     input |-> h.input,
     pc |-> pcAfter, gr |-> h.gr, flags |-> h.flags, memory |-> h.memory, out |-> h.out]

advance_mutant(impl, h) ==
    IF h.outcome = "awaitInput" THEN Outcome("pending", impl, 1, h, h.pc)
    ELSE IF h.outcome # "ok" THEN Outcome("throws", impl, 1, h, h.pc)
    ELSE Outcome("true", impl, 1, h, JsAdd(h.pc, 1))

\* const step = await instructionImpl.evaluate(); ... setProgramCounter(pc + step)
advance(impl, h) ==
    IF h.outcome = "awaitInput" THEN Outcome("pending", impl, 1, h, h.pc)
    ELSE IF h.outcome # "ok" THEN Outcome("throws", impl, 1, h, h.pc)
    ELSE IF h.step = 0 THEN Outcome("true", impl, 1, h, h.pc)
    ELSE Outcome("true", impl, 1, h, JsAdd(h.pc, h.step))

dispatch(s) ==
    advance(MACHINE_INSTRUCTION_IMPLIMENTATION(instructionNumber(s)),
            evaluate(MACHINE_INSTRUCTION_IMPLIMENTATION(instructionNumber(s)), s))

executeInstruction_skipsUndefined(s) ==
    IF instructionNumber(s) = MACHINE_INSTRUCTION_NUMBER.RET1
    THEN Outcome("false", "RET", 0, Done(s, 0, undefined, undefined), s.pc)
    ELSE IF MACHINE_INSTRUCTION_IMPLIMENTATION(instructionNumber(s)) = ""
    THEN Outcome("true", "", 0, Done(s, 1, undefined, undefined), JsAdd(s.pc, 1))
    ELSE dispatch(s)

executeInstruction_passesRET(s) ==
    IF instructionNumber(s) = MACHINE_INSTRUCTION_NUMBER.RET1
    THEN Outcome("false", "RET", 0, Done(s, 0, undefined, undefined), JsAdd(s.pc, 1))
    ELSE IF MACHINE_INSTRUCTION_IMPLIMENTATION(instructionNumber(s)) = ""
    THEN Outcome("throws", "", 0, Raise(s, "UndefinedOpcode"), s.pc)
    ELSE dispatch(s)

executeInstruction(s) ==
    IF instructionNumber(s) = MACHINE_INSTRUCTION_NUMBER.RET1
    THEN Outcome("false", "RET", 0, Done(s, 0, undefined, undefined), s.pc)
    ELSE IF MACHINE_INSTRUCTION_IMPLIMENTATION(instructionNumber(s)) = ""
    THEN Outcome("throws", "", 0, Raise(s, "UndefinedOpcode"), s.pc)
    ELSE dispatch(s)

\* The rest of a call suspended in SVC input, once the line has arrived.
resumeInstruction(s, value) == advance("SVC2", SVC2_resume(s, value))

(***************************************************************************)
(* Bounds and the programs the model runs                                  *)
(***************************************************************************)
\* Register fields range over GR0..GR(MaxReg) and the two ends of the
\* indices past GR7 that a 4-bit field can hold.
MaxReg == 2

\* Start addresses range over 0..MaxBegin.
MaxBegin == 1

\* A recorded run holds at most MaxSteps completed instructions.
MaxSteps == 5

\* The address of the first data word.
DataBase == 8

Fields == (0..MaxReg) \cup {8, 15}

Word(op, r1, r2) == op * 256 + r1 * 16 + r2

Op(k) == MACHINE_INSTRUCTION_NUMBER[k]

\* One-word opcodes: the register-register forms, RET and an opcode (JNZ,
\* 0x62) that has no handler.
OneWordOps == {Op("AND1"), Op("LD1"), Op("SUBA1"), Op("CPA1"), Op("RET1"), 98}

TwoWordOps == {Op(k) : k \in {"AND2", "LD2", "LAD2", "ST2", "ADDA2", "CPA2",
                               "JUMP2", "JZE2", "JMI2", "JPL2"}}

\* Address operands: the first program word, the first data word and an
\* address that nothing has written.
Operands == {0, DataBase, DataBase + 3}

\* The buffer of SVC starts at 0, at DataBase or one word further, so that
\* the length word (DataBase + 2, DataBase + 3) can lie inside it.
BufferOperands == Operands \cup {DataBase + 1}

LengthOperands == {DataBase + 2, DataBase + 3}

\* The instruction under study: every opcode with every pair of register
\* fields and every operand.
Instructions ==
    {<<Word(op, r1, r2)>> : op \in OneWordOps, r1 \in Fields, r2 \in Fields}
    \cup {<<Word(op, r1, r2), a>> : op \in TwoWordOps, r1 \in Fields, r2 \in Fields,
                                    a \in Operands}
    \cup {<<Word(Op("SVC2"), r1, r2), a, l>> : r1 \in Fields, r2 \in Fields,
                                               a \in BufferOperands, l \in LengthOperands}

\* What runs before it: nothing, LAD GR1,1 (an index register), CPA GR0,GR0
\* (zero flag), LD GR0,DataBase+1 (a positive or a negative value and flag).
Prefixes ==
    {<<>>, <<Word(Op("LAD2"), 1, 0), 1>>, <<Word(Op("CPA1"), 0, 0)>>,
     <<Word(Op("LD2"), 0, 0), DataBase + 1>>}

\* Data words: "h" or a RET word, "i" or -1, and the length 2.
DataLayouts == {<<d0, d1, 2>> : d0 \in {104, Word(Op("RET1"), 0, 0)}, d1 \in {105, -1}}

\* The Word Store the assembler hands over: the program from address 0, the
\* data from DataBase, every other address never set.
Load(program, data) ==
    [a \in (0..(Len(program) - 1)) \cup (DataBase..(DataBase + Len(data) - 1)) |->
        IF a < DataBase THEN program[a + 1] ELSE data[a - DataBase + 1]]

Programs == {p \o g \o <<Word(Op("RET1"), 0, 0)>> : p \in Prefixes, g \in Instructions}

\* Lines typed by the user, and what io.in() can deliver.
Lines == {<<>>, <<104, 105>>, <<32, 97>>}

Inputs == {Trim(l) : l \in Lines}

(***************************************************************************)
(* State                                                                   *)
(***************************************************************************)
Cur == [pc |-> pc, gr |-> gr, flags |-> flags, memory |-> memory, out |-> out]

Snapshot(o) == [pc |-> o.pc, gr |-> o.gr, flags |-> o.flags, memory |-> o.memory]

NoCall(s) ==
    [call |-> "none", afterHalt |-> FALSE, pre |-> s,
     o |-> Outcome("none", "", 0, Done(s, 0, undefined, undefined), s.pc)]

\* The line driver before any line has arrived: no call of executeNext() is
\* pending (queue holds the continuations waiting to be resumed, in order),
\* inputFunc is null (0), no call is suspended in io.in(), readline is open.
NewDriver ==
    [queue |-> <<>>, inputFunc |-> 0, suspended |-> {}, started |-> 0, lines |-> 0,
     closed |-> FALSE]

\* No Compiler is at work while the Machine runs.
NoCompiler ==
    [phase |-> "none", source |-> <<>>, beginAddr |-> 0, index |-> 0, currentAddress |-> 0,
     labelToAddrMap |-> <<>>, labelAddrsToReplace |-> <<>>, solved |-> 0, error |-> "",
     allocated |-> <<>>]

\* No second Machine exists; the SVC2 object of the static table has not
\* been set up (bound 0).
NoShared ==
    [machine |-> <<>>, bound |-> 0, pending |-> <<>>, halted |-> <<>>,
     last |-> [by |-> 0, kind |-> "none", value |-> <<>>, pre |-> <<>>]]

\* A Machine constructed over an assembled Word Store and a new Register File.
Init ==
    /\ memory \in {Load(program, data) : program \in Programs, data \in DataLayouts}
    /\ gr = NewRegisterGR
    /\ flags = NewRegisterFlags
    /\ pc = 0
    /\ out = <<>>
    /\ runState = "ready"
    /\ mode = "none"
    /\ trace = <<>>
    /\ last = NoCall(Cur)
    /\ ref = [init |-> Cur, begin |-> 0, inputs |-> <<>>, used |-> 0,
              trace |-> <<>>, end |-> "none"]
    /\ driver = NewDriver
    /\ compiler = NoCompiler
    /\ shared = NoShared

\* The state a call leaves behind.  A completed instruction is appended to
\* the record of the run.
Apply(o, call) ==
    /\ pc' = o.pc
    /\ gr' = o.gr
    /\ flags' = o.flags
    /\ memory' = o.memory
    /\ out' = o.out
    /\ last' = [call |-> call, afterHalt |-> runState = "halted", pre |-> Cur, o |-> o]
    /\ trace' = IF o.returns = "true" THEN Append(trace, Snapshot(o)) ELSE trace
    /\ runState' = CASE o.returns = "true" -> "running"
                     [] o.returns = "false" -> "halted"
                     [] o.returns = "pending" -> "awaitInput"
                     [] o.returns = "throws" -> IF mode = "execute" THEN "failed" ELSE "running"

(***************************************************************************)
(* Machine.execute: run to completion                                      *)
(***************************************************************************)
\* this.register.setProgramCounter(beginAddr), then the loop is entered.
Execute(beginAddr) ==
    /\ mode = "none"
    /\ runState = "ready"
    /\ pc' = beginAddr
    /\ mode' = "execute"
    /\ runState' = "running"
    /\ ref' = [ref EXCEPT !.begin = beginAddr]
    /\ UNCHANGED <<memory, gr, flags, out, last, trace, driver, compiler, shared>>

\* One iteration of while (true) { if (await this.executeInstruction() === false) break; }
ExecuteLoop ==
    /\ mode = "execute"
    /\ runState = "running"
    /\ Len(trace) < MaxSteps
    /\ Apply(executeInstruction(Cur), "execute")
    /\ UNCHANGED <<mode, ref, driver, compiler, shared>>

\* io.in() delivers a line to the iteration suspended in SVC input.
IoIn(value) ==
    /\ mode = "execute"
    /\ runState = "awaitInput"
    /\ Apply(resumeInstruction(Cur, value), "execute")
    /\ ref' = [ref EXCEPT !.inputs = Append(@, value)]
    /\ UNCHANGED <<mode, driver, compiler, shared>>

(***************************************************************************)
(* Machine.executeInteractive and the line driver                          *)
(***************************************************************************)
RunOver == runState \in {"halted", "failed"} \/ (runState = "running" /\ Len(trace) = MaxSteps)

interactiveBegin_mutant(beginAddr) == 0

\* this.register.setProgramCounter(beginAddr) of executeInteractive
interactiveBegin(beginAddr) == beginAddr

\* A Machine over the same initial Word Store and Register File is started
\* interactively at the same address, the run of execute() being kept in ref.
ExecuteInteractive(beginAddr) ==
    /\ mode = "execute"
    /\ RunOver
    /\ beginAddr = ref.begin
    /\ memory' = ref.init.memory
    /\ gr' = ref.init.gr
    /\ flags' = ref.init.flags
    /\ out' = ref.init.out
    /\ pc' = interactiveBegin(beginAddr)
    /\ mode' = "interactive"
    /\ runState' = "running"
    /\ trace' = <<>>
    /\ last' = NoCall(ref.init)
    /\ ref' = [ref EXCEPT !.trace = trace, !.end = runState]
    /\ UNCHANGED <<driver, compiler, shared>>

executeNext_twice(s) ==
    LET first == executeInstruction(s)
        second == executeInstruction([pc |-> first.pc, gr |-> first.gr, flags |-> first.flags,
                                      memory |-> first.memory, out |-> first.out])
    IN  IF first.returns = "true" /\ second.returns = "true"
        THEN [second EXCEPT !.evaluated = first.evaluated + second.evaluated]
        ELSE first

\* executeNext(): return that.executeInstruction()
executeNext(s) == executeInstruction(s)

\* The line to be typed next is the one the run of execute() was given.
Replays(value) == ref.used < Len(ref.inputs) => Trim(value) = ref.inputs[ref.used + 1]

\* readlineStdin.on("line", ...): a line is the awaited input when one is
\* awaited, and otherwise starts the next step.
Line(value) ==
    /\ mode = "interactive"
    /\ IF runState = "awaitInput"
       THEN /\ Replays(value)
            /\ Apply(resumeInstruction(Cur, Trim(value)), "executeNext")
            /\ ref' = [ref EXCEPT !.used = @ + 1]
       ELSE /\ runState = "running"
            /\ Len(trace) < MaxSteps
            /\ Apply(executeNext(Cur), "executeNext")
            /\ UNCHANGED ref
    /\ UNCHANGED <<mode, driver, compiler, shared>>

\* A further call of executeNext() on the handle after it has returned false.
ExecuteNextAgain ==
    /\ mode = "interactive"
    /\ runState = "halted"
    /\ Apply(executeNext(Cur), "executeNext")
    /\ UNCHANGED <<mode, ref, driver, compiler, shared>>

BeginAddrs == 0..MaxBegin

Next ==
    \/ \E beginAddr \in BeginAddrs : Execute(beginAddr)
    \/ ExecuteLoop
    \/ \E value \in Inputs : IoIn(value)
    \/ \E beginAddr \in BeginAddrs : ExecuteInteractive(beginAddr)
    \/ \E value \in Lines : Line(value)
    \/ ExecuteNextAgain

Spec == Init /\ [][Next]_vars

(***************************************************************************)
(* The line driver at the granularity of its awaits.  A "line" event runs  *)
(* the handler up to its first await; what follows an await is resumed     *)
(* from the microtask queue, which is emptied before the next chunk of     *)
(* input is read.  The lines of one chunk are emitted one after the other  *)
(* without the queue being run in between.                                 *)
(***************************************************************************)
\* At most MaxLines lines arrive.
MaxLines == 3

\* What is left of a call of executeNext() after an await: the call, where
\* it resumes, and the locals it captured.
Continuation(id, stage, step, dataAddr, length, value) ==
    [id |-> id, stage |-> stage, step |-> step, dataAddr |-> dataAddr, length |-> length,
     value |-> value]

Stores(h) == [pc |-> h.pc, gr |-> h.gr, flags |-> h.flags, memory |-> h.memory, out |-> h.out]

\* SVC2.evaluate up to its first await: `await this.io.out(...)`.
SVC2_begin(s, id) ==
    IF gR2OrIRValue(s) = 1
    THEN [s |-> [s EXCEPT !.out = s.out \o <<PromptMessage>>],
          queued |-> <<Continuation(id, "in", 0, undefined, undefined, <<>>)>>]
    ELSE IF gR2OrIRValue(s) = 2
    THEN IF SVC2_dataAddr(s) = undefined
         THEN [s |-> s, queued |-> <<>>]
         ELSE [s |-> [s EXCEPT !.out = s.out \o
                         <<DebugOutMessage(SVC2_dataAddr(s),
                                           getValueAt(s.memory, SVC2_lengthAddr(s)))>>],
               queued |-> <<Continuation(id, "out", 0, SVC2_dataAddr(s),
                                         getValueAt(s.memory, SVC2_lengthAddr(s)), <<>>)>>]
    ELSE [s |-> s, queued |-> <<Continuation(id, "advance", 1, undefined, undefined, <<>>)>>]

\* controller.executeNext() up to `await instructionImpl.evaluate()`: a
\* handler other than SVC2 has no await and runs whole; the program counter
\* is advanced when the call is resumed.  A call that throws is caught by
\* the handler and leaves nothing to resume.
executeNextBegin(s, id) ==
    IF instructionNumber(s) = MACHINE_INSTRUCTION_NUMBER.RET1
    THEN [s |-> s, queued |-> <<Continuation(id, "close", 0, undefined, undefined, <<>>)>>]
    ELSE IF MACHINE_INSTRUCTION_IMPLIMENTATION(instructionNumber(s)) = ""
    THEN [s |-> s, queued |-> <<>>]
    ELSE IF MACHINE_INSTRUCTION_IMPLIMENTATION(instructionNumber(s)) = "SVC2"
    THEN SVC2_begin(s, id)
    ELSE LET h == evaluate(MACHINE_INSTRUCTION_IMPLIMENTATION(instructionNumber(s)), s)
         IN  IF h.outcome # "ok" THEN [s |-> s, queued |-> <<>>]
             ELSE [s |-> Stores(h),
                   queued |-> <<Continuation(id, "advance", h.step, undefined, undefined, <<>>)>>]

\* One continuation resumed; d is the driver with the continuation taken
\* off its queue.
resume(s, d, c) ==
    CASE c.stage = "advance" ->
            [s |-> [s EXCEPT !.pc = IF c.step = 0 THEN s.pc ELSE JsAdd(s.pc, c.step)], d |-> d]
      [] c.stage = "out" ->
            [s |-> [s EXCEPT !.out = s.out \o
                       <<TextMessage(SVC2_decode(s.memory, c.dataAddr, 0, c.length))>>],
             d |-> [d EXCEPT !.queue = Append(@, [c EXCEPT !.stage = "advance", !.step = 3])]]
      [] c.stage = "in" ->
            [s |-> s, d |-> [d EXCEPT !.inputFunc = c.id, !.suspended = @ \cup {c.id}]]
      [] c.stage = "store" ->
            [s |-> [s EXCEPT !.memory = SVC2_resume(s, c.value).memory],
             d |-> [d EXCEPT !.queue = Append(@, [c EXCEPT !.stage = "advance", !.step = 3])]]
      [] c.stage = "close" ->
            [s |-> s, d |-> [d EXCEPT !.closed = TRUE]]

\* The microtask queue run until it is empty.
RECURSIVE drain(_, _)
drain(s, d) ==
    IF d.queue = <<>> THEN [s |-> s, d |-> d]
    ELSE LET r == resume(s, [d EXCEPT !.queue = Tail(@)], Head(d.queue))
         IN  drain(r.s, r.d)

SetStores(s) ==
    /\ pc' = s.pc
    /\ gr' = s.gr
    /\ flags' = s.flags
    /\ memory' = s.memory
    /\ out' = s.out

\* new Machine(memory, register, io).executeInteractive(0)
DriverStart ==
    /\ mode = "none"
    /\ runState = "ready"
    /\ mode' = "driver"
    /\ runState' = "running"
    /\ pc' = interactiveBegin(0)
    /\ UNCHANGED <<memory, gr, flags, out, last, trace, ref, driver, compiler, shared>>

\* readlineStdin.on("line", ...), up to the handler's first await.
LineEvent(value) ==
    /\ mode = "driver"
    /\ ~driver.closed
    /\ driver.lines < MaxLines
    /\ IF driver.inputFunc # 0
       THEN /\ driver' = [driver EXCEPT
                             !.queue = Append(@, Continuation(driver.inputFunc, "store", 0,
                                                              undefined, undefined, Trim(value))),
                             !.inputFunc = 0,
                             !.suspended = @ \ {driver.inputFunc},
                             !.lines = @ + 1]
            /\ UNCHANGED <<memory, gr, flags, pc, out>>
       ELSE IF pc = undefined
       THEN /\ driver' = [driver EXCEPT !.lines = @ + 1]
            /\ UNCHANGED <<memory, gr, flags, pc, out>>
       ELSE /\ SetStores(executeNextBegin(Cur, driver.started + 1).s)
            /\ driver' = [driver EXCEPT
                             !.queue = @ \o executeNextBegin(Cur, driver.started + 1).queued,
                             !.started = @ + 1,
                             !.lines = @ + 1]
    /\ UNCHANGED <<runState, mode, last, trace, ref, compiler, shared>>

\* The pending continuations are resumed, in order, until none is left.
Drain ==
    /\ mode = "driver"
    /\ driver.queue # <<>>
    /\ SetStores(drain(Cur, driver).s)
    /\ driver' = drain(Cur, driver).d
    /\ UNCHANGED <<runState, mode, last, trace, ref, compiler, shared>>

NextDriver ==
    \/ DriverStart
    \/ \E value \in Lines : LineEvent(value)
    \/ Drain

SpecDriver == Init /\ [][NextDriver]_vars

(***************************************************************************)
(* The assembler (Compiler and LineAnalyzer).  A source line is the tuple  *)
(* of its five tokens <<label, mnemonic, operand, operand, operand>>, so   *)
(* that args[k] of the source is args[k + 1] here.  compiler holds what    *)
(* the Compiler object holds (source, beginAddr, labelToAddrMap,           *)
(* labelAddrsToReplace), the position of its two passes, and allocated:    *)
(* the address and the word count of every line pass 1 has emitted.        *)
(***************************************************************************)
MaxSource == 3

MaxBase == 1

MaxLiteral == 10

\* Number(token) for the tokens of a source: "" converts to 0, a decimal
\* numeral to its value, anything else to NaN.
Number(token) ==
    IF token = "" THEN 0
    ELSE IF \E n \in 0..MaxLiteral : ToString(n) = token
         THEN CHOOSE n \in 0..MaxLiteral : ToString(n) = token
         ELSE NaN

\* The register names as they are written in a source.
GeneralRegisterTokens == <<"GR0", "GR1", "GR2", "GR3", "GR4", "GR5", "GR6", "GR7">>

\* The opcode the assembler knows for each mnemonic.
MnemonicNumber ==
    [LD |-> 16, ST |-> 17, CPA |-> 64, JZE |-> 99, JMI |-> 97, SUBA |-> 37,
     JUMP |-> 100, RET |-> 129]

\* LineAnalyzer.parseLabel: the label token, "" standing for null.
parseLabel(args) == args[1]

\* LineAnalyzer.isPseudoInstruction
isPseudoInstruction(args) == args[2] \in {"START", "END", "DC", "DS"}

\* LineAnalyzer.isGeneralRegister
isGeneralRegister(value) == \E i \in 1..Len(GeneralRegisterTokens) : GeneralRegisterTokens[i] = value

\* LineAnalyzer.extractRegisterNumber: the number the last character of a
\* register name denotes.
extractRegisterNumber(value) ==
    (CHOOSE i \in 1..Len(GeneralRegisterTokens) : GeneralRegisterTokens[i] = value) - 1

\* LineAnalyzer.toInstructionNumber throws for a mnemonic without an opcode.
knownInstruction(name) == name \in DOMAIN MnemonicNumber /\ MnemonicNumber[name] # 0

toInstructionNumber(name) == MnemonicNumber[name]

\* LineAnalyzer.buildFirstWord: the opcode in the high byte; the first
\* register in bits 4..7 and a second or index register in bits 0..3, both
\* only when the first operand is a register.
buildFirstWord(args) ==
    LET r1 == IF args[3] # "" /\ isGeneralRegister(args[3])
              THEN extractRegisterNumber(args[3]) ELSE 0
        r2 == IF args[3] # "" /\ isGeneralRegister(args[3])
              THEN IF args[4] # "" /\ isGeneralRegister(args[4])
                   THEN extractRegisterNumber(args[4])
                   ELSE IF args[5] # "" /\ isGeneralRegister(args[5])
                        THEN extractRegisterNumber(args[5]) ELSE 0
              ELSE 0
    IN  toInstructionNumber(args[2]) * 256 + r1 * 16 + r2

\* LineAnalyzer.extractAddrRawValue: the first of the two leading operands
\* that is not empty and not a register, "" standing for null.
extractAddrRawValue(args) ==
    IF args[3] # "" /\ ~isGeneralRegister(args[3]) THEN args[3]
    ELSE IF args[4] # "" /\ ~isGeneralRegister(args[4]) THEN args[4]
    ELSE ""

\* LineAnalyzer.hasAddrValue
hasAddrValue(args) == extractAddrRawValue(args) # ""

\* LineAnalyzer.parseAddrLabel: every address operand is taken for a label.
parseAddrLabel(args) == extractAddrRawValue(args)

\* LineAnalyzer.parseAddrValue
parseAddrValue(args) == 0

\* What the compilation of one line leaves behind: the Word Store, the
\* number of words it reports, the unresolved references it records, and
\* the error it throws ("" when it returns).
Compiled(mem, words, entries, error) ==
    [memory |-> mem, words |-> words, entries |-> entries, error |-> error]

compilePseudoInstruction_mutant(mem, currentAddress, args) ==
    IF args[2] \in {"START", "END"} THEN Compiled(mem, 1, <<>>, "")
    ELSE IF args[2] = "DC"
         THEN Compiled(setValueAt(mem, currentAddress, Number(args[3])), 1, <<>>, "")
    ELSE IF args[2] = "DS"
         THEN Compiled(setValueAt(mem, currentAddress, 0), 1, <<>>, "")
    ELSE Compiled(mem, 0, <<>>, "InvalidPseudoInstruction")

\* Compiler.compilePseudoInstruction
compilePseudoInstruction(mem, currentAddress, args) ==
    IF args[2] \in {"START", "END"} THEN Compiled(mem, 0, <<>>, "")
    ELSE IF args[2] = "DC"
         THEN Compiled(setValueAt(mem, currentAddress, Number(args[3])), 1, <<>>, "")
    ELSE IF args[2] = "DS"
         THEN Compiled(setValueAt(mem, currentAddress, 0), 1, <<>>, "")
    ELSE Compiled(mem, 0, <<>>, "InvalidPseudoInstruction")

compileMachineInstruction_mutant(mem, currentAddress, args) ==
    IF ~knownInstruction(args[2]) THEN Compiled(mem, 0, <<>>, "UndefinedInstruction")
    ELSE LET first == setValueAt(mem, currentAddress, buildFirstWord(args))
             nextAddress == currentAddress + 1
             addrLabel == parseAddrLabel(args)
         IN  IF ~hasAddrValue(args) THEN Compiled(first, 1, <<>>, "")
             ELSE IF addrLabel # ""
                  THEN Compiled(setValueAt(first, nextAddress, 0), 2,
                                <<(<<currentAddress, addrLabel>>)>>, "")
                  ELSE Compiled(setValueAt(first, nextAddress, parseAddrValue(args)), 2,
                                <<>>, "")

\* Compiler.compileMachineInstruction.  buildFirstWord throws, before
\* anything is written, for a mnemonic without an opcode.
compileMachineInstruction(mem, currentAddress, args) ==
    IF ~knownInstruction(args[2]) THEN Compiled(mem, 0, <<>>, "UndefinedInstruction")
    ELSE LET first == setValueAt(mem, currentAddress, buildFirstWord(args))
             nextAddress == currentAddress + 1
             addrLabel == parseAddrLabel(args)
         IN  IF ~hasAddrValue(args) THEN Compiled(first, 1, <<>>, "")
             ELSE IF addrLabel # ""
                  THEN Compiled(setValueAt(first, nextAddress, 0), 2,
                                <<(<<nextAddress, addrLabel>>)>>, "")
                  ELSE Compiled(setValueAt(first, nextAddress, parseAddrValue(args)), 2,
                                <<>>, "")

\* this.labelToAddrMap[label]
labelAddr(map, label) == IF label \in DOMAIN map THEN map[label] ELSE undefined

\* this.labelToAddrMap[label] = currentAddress
bindLabel(map, label, address) ==
    [l \in (DOMAIN map) \cup {label} |-> IF l = label THEN address ELSE map[l]]

\* !value for what the Label Table can hold.
falsy(value) == value = undefined \/ value = NaN \/ value = 0

\* The lines the model assembles.
SourceLines ==
    { <<"", "START", "", "", "">>,
      <<"", "DC", "7", "", "">>,
      <<"", "DS", "", "", "">>,
      <<"", "RET", "", "", "">>,
      <<"", "LD", "GR1", "GR2", "">>,
      <<"", "LD", "GR1", "L1", "GR2">>,
      <<"", "JUMP", "L1", "", "">>,
      <<"", "JZE", "L2", "", "">>,
      <<"", "JUMP", "10", "", "">>,
      <<"", "NOP", "", "", "">>,
      <<"L1", "DC", "7", "", "">>,
      <<"L1", "JUMP", "L1", "", "">>,
      <<"L1", "RET", "", "", "">> }

\* JUMP L1 at the base address, eight words of storage, L1 declared after.
ForwardReference ==
    <<(<<"", "JUMP", "L1", "", "">>)>>
        \o [i \in 1..8 |-> <<"", "DS", "", "", "">>]
        \o <<(<<"L1", "RET", "", "", "">>)>>

\* Every mnemonic the assembler knows, with every choice of a first register
\* and of a second or index register, and with either of them left out.
RegisterLines ==
    LET GR == {GeneralRegisterTokens[i] : i \in 1..Len(GeneralRegisterTokens)}
    IN  UNION {
            {<<"", m, r1, r2, "">> : r1 \in GR, r2 \in GR}
            \cup {<<"", m, r1, "L1", r2>> : r1 \in GR, r2 \in GR}
            \cup {<<"", m, r1, "", "">> : r1 \in GR}
            \cup {<<"", m, r1, "L1", "">> : r1 \in GR}
            \cup {<<"", m, "L1", r2, "">> : r2 \in GR}
            \cup {<<"", m, "", "", "">>, <<"", m, "L1", "", "">>}
            : m \in DOMAIN MnemonicNumber}

Sources ==
    (UNION {[1..n -> SourceLines] : n \in 1..MaxSource}) \cup {ForwardReference}
        \cup {<<line>> : line \in RegisterLines}

\* new Compiler(memory, beginAddr, source, {}) over a new Memory.
NewCompiler(source, beginAddr) ==
    [phase |-> "pass1", source |-> source, beginAddr |-> beginAddr, index |-> 0,
     currentAddress |-> beginAddr, labelToAddrMap |-> <<>>,
     labelAddrsToReplace |-> <<>>, solved |-> 0, error |-> "", allocated |-> <<>>]

InitCompile ==
    /\ memory = <<>>
    /\ gr = NewRegisterGR
    /\ flags = NewRegisterFlags
    /\ pc = 0
    /\ out = <<>>
    /\ runState = "ready"
    /\ mode = "compile"
    /\ trace = <<>>
    /\ last = NoCall(Cur)
    /\ ref = [init |-> Cur, begin |-> 0, inputs |-> <<>>, used |-> 0,
              trace |-> <<>>, end |-> "none"]
    /\ driver = NewDriver
    /\ compiler \in {NewCompiler(source, beginAddr) :
                        source \in Sources, beginAddr \in 0..MaxBase}
    /\ shared = NoShared

\* Compiler.parseAndAllocate: one turn of its forEach.  The label is bound
\* before the line is compiled, so it stays bound when the line throws.
ParseAndAllocate ==
    /\ mode = "compile"
    /\ compiler.phase = "pass1"
    /\ LET args == compiler.source[compiler.index + 1]
           label == parseLabel(args)
           map == IF label # ""
                  THEN bindLabel(compiler.labelToAddrMap, label, compiler.currentAddress)
                  ELSE compiler.labelToAddrMap
           r == IF isPseudoInstruction(args)
                THEN compilePseudoInstruction(memory, compiler.currentAddress, args)
                ELSE compileMachineInstruction(memory, compiler.currentAddress, args)
           entries == compiler.labelAddrsToReplace \o r.entries
       IN  IF r.error # ""
           THEN /\ compiler' = [compiler EXCEPT !.phase = "failed", !.error = r.error,
                                                !.index = @ + 1, !.labelToAddrMap = map]
                /\ UNCHANGED memory
           ELSE /\ memory' = r.memory
                /\ compiler' =
                       [compiler EXCEPT
                           !.index = @ + 1,
                           !.labelToAddrMap = map,
                           !.labelAddrsToReplace = entries,
                           !.currentAddress = @ + r.words,
                           !.allocated = Append(@, [address |-> compiler.currentAddress,
                                                    words |-> r.words]),
                           !.phase = IF compiler.index + 1 < Len(compiler.source)
                                     THEN "pass1"
                                     ELSE IF entries = <<>> THEN "done" ELSE "pass2"]
    /\ UNCHANGED <<gr, flags, pc, out, runState, mode, last, trace, ref, driver, shared>>

\* Compiler.solveLabels: one turn of its forEach.
SolveLabels ==
    /\ mode = "compile"
    /\ compiler.phase = "pass2"
    /\ LET entry == compiler.labelAddrsToReplace[compiler.solved + 1]
           value == labelAddr(compiler.labelToAddrMap, entry[2])
       IN  IF falsy(value)
           THEN /\ compiler' = [compiler EXCEPT !.phase = "failed", !.error = "UndefinedLabel"]
                /\ UNCHANGED memory
           ELSE /\ memory' = setValueAt(memory, entry[1], value)
                /\ compiler' =
                       [compiler EXCEPT
                           !.solved = @ + 1,
                           !.phase = IF compiler.solved + 1 < Len(compiler.labelAddrsToReplace)
                                     THEN "pass2" ELSE "done"]
    /\ UNCHANGED <<gr, flags, pc, out, runState, mode, last, trace, ref, driver, shared>>

NextCompile ==
    \/ ParseAndAllocate
    \/ SolveLabels

SpecCompile == InitCompile /\ [][NextCompile]_vars

(***************************************************************************)
(* Two Machine instances.  The handler objects are created once, in the    *)
(* static table of the class Machine, and every instance dispatches to     *)
(* them.  shared.machine[m] is the Word Store, Register File and io of     *)
(* instance m; shared.bound is the instance whose memory, register and io  *)
(* the SVC2 object holds since its last setup() and setIO(); pending[m]    *)
(* says that the call of instance m is suspended in io.in(); last records  *)
(* the latest step: who started it and what both instances held before.    *)
(* The handlers without an await run to their end inside evaluate(), so    *)
(* that only the binding of the SVC2 object outlives a turn.               *)
(***************************************************************************)
Instances == {1, 2}

\* The programs of the two instances: SVC input at address 0; SVC with a
\* type that is neither input nor output; LAD before an SVC input.
SharedPrograms ==
    { <<Word(Op("SVC2"), 0, 1), DataBase, DataBase + 2, Word(Op("RET1"), 0, 0)>>,
      <<Word(Op("SVC2"), 0, 0), Word(Op("RET1"), 0, 0)>>,
      <<Word(Op("LAD2"), 1, 0), 5, Word(Op("SVC2"), 0, 1), DataBase + 1, DataBase + 2,
        Word(Op("RET1"), 0, 0)>> }

NewMachine(program, data) ==
    [pc |-> 0, gr |-> NewRegisterGR, flags |-> NewRegisterFlags,
     memory |-> Load(program, data), out |-> <<>>]

InitShared ==
    /\ memory = <<>>
    /\ gr = NewRegisterGR
    /\ flags = NewRegisterFlags
    /\ pc = 0
    /\ out = <<>>
    /\ runState = "ready"
    /\ mode = "shared"
    /\ trace = <<>>
    /\ last = NoCall(Cur)
    /\ ref = [init |-> Cur, begin |-> 0, inputs |-> <<>>, used |-> 0,
              trace |-> <<>>, end |-> "none"]
    /\ driver = NewDriver
    /\ compiler = NoCompiler
    /\ \E p1 \in SharedPrograms, p2 \in SharedPrograms, d1 \in DataLayouts, d2 \in DataLayouts :
          shared = [machine |-> <<NewMachine(p1, d1), NewMachine(p2, d2)>>,
                    bound |-> 0,
                    pending |-> <<FALSE, FALSE>>,
                    halted |-> <<FALSE, FALSE>>,
                    last |-> [by |-> 0, kind |-> "none", value |-> <<>>, pre |-> <<>>]]

\* The state of an instance after a call of executeInstruction() that
\* returned o.
After(o) == [pc |-> o.pc, gr |-> o.gr, flags |-> o.flags, memory |-> o.memory, out |-> o.out]

\* Instance m calls executeInstruction().  setup() and setIO() bind the
\* SVC2 object to m when the opcode is SVC; a call that returns false or
\* throws ends the run of m; SVC input is left suspended in io.in().
SharedStep(m) ==
    /\ mode = "shared"
    /\ ~shared.pending[m]
    /\ ~shared.halted[m]
    /\ LET o == executeInstruction(shared.machine[m])
       IN  shared' =
               [shared EXCEPT
                   !.machine[m] = After(o),
                   !.bound = IF o.impl = "SVC2" THEN m ELSE @,
                   !.pending[m] = (o.returns = "pending"),
                   !.halted[m] = (o.returns \in {"false", "throws"}),
                   !.last = [by |-> m, kind |-> "step", value |-> <<>>,
                             pre |-> shared.machine]]
    /\ UNCHANGED <<memory, gr, flags, pc, out, runState, mode, last, trace, ref, driver,
                   compiler>>

\* io.in() delivers value to the suspended call of instance m.  The rest of
\* SVC2.evaluate reads this.register and this.memory, which are those of
\* the instance the SVC2 object is bound to by now; executeInstruction()
\* then advances the program counter of the register of m by the step.
SharedResume(m, value) ==
    /\ mode = "shared"
    /\ shared.pending[m]
    /\ LET b == shared.bound
           h == SVC2_resume(shared.machine[b], value)
           written == [shared.machine EXCEPT ![b].memory = h.memory]
       IN  shared' =
               [shared EXCEPT
                   !.machine = [written EXCEPT ![m].pc = JsAdd(written[m].pc, h.step)],
                   !.pending[m] = FALSE,
                   !.last = [by |-> m, kind |-> "resume", value |-> value,
                             pre |-> shared.machine]]
    /\ UNCHANGED <<memory, gr, flags, pc, out, runState, mode, last, trace, ref, driver,
                   compiler>>

NextShared ==
    \/ \E m \in Instances : SharedStep(m)
    \/ \E m \in Instances, value \in Inputs : SharedResume(m, value)

SpecShared == InitShared /\ [][NextShared]_vars

(***************************************************************************)
(* Properties.  last holds the latest call of executeInstruction(): the    *)
(* state it started from (pre) and what it left behind (o).                *)
(***************************************************************************)
Returned == last.call # "none" /\ last.o.returns # "pending"

Completed == last.call # "none" /\ last.o.returns = "true"

\* Operands decoded from the state the call started from.
PreR1 == gR1Value(last.pre)

PreR2 == gR2OrIRValue(last.pre)

PreAddr == getValueAt(last.pre.memory, JsAdd(last.pre.pc, 1))

\* C1: when the handler reports step 0 the program counter after the step is
\* the value the handler set; when it reports a positive step n the program
\* counter after the step is the pre-step program counter plus n.
C1_StepAdvancesPC ==
    Completed =>
        /\ last.o.step = 0 => pc = last.o.handlerPc
        /\ last.o.step > 0 => pc = JsAdd(last.pre.pc, last.o.step)

\* A taken jump (step 0) that follows an instruction of positive step.
C1_Witness ==
    /\ Completed
    /\ last.o.step = 0
    /\ pc # last.pre.pc
    /\ Len(trace) > 1
    /\ trace[1].pc > ref.begin

\* C5: when the opcode at the program counter is not RET and has no
\* registered handler, the step fails with UndefinedOpcode and the general
\* registers, the flags and the program counter keep their pre-step values.
C5_UndefinedOpcode ==
    (/\ Returned
     /\ instructionNumber(last.pre) # MACHINE_INSTRUCTION_NUMBER.RET1
     /\ instructionNumber(last.pre) \notin {MACHINE_INSTRUCTION_NUMBER[k] : k \in Registered})
    => /\ last.o.returns = "throws"
       /\ last.o.error = "UndefinedOpcode"
       /\ gr = last.pre.gr
       /\ flags = last.pre.flags
       /\ pc = last.pre.pc

\* An unregistered opcode met after an instruction has changed a register.
C5_Witness ==
    /\ Returned
    /\ instructionNumber(last.pre) = 98
    /\ last.o.error = "UndefinedOpcode"
    /\ gr # NewRegisterGR

\* The effective address the claim states, from the pre-step state.
C6_Expected == IF PreR2 # 0 THEN JsAdd(PreAddr, last.pre.gr[PreR2]) ELSE PreAddr

UsesEffectiveAddress ==
    \/ last.o.impl \in {"AND2", "LD2", "LAD2", "ST2", "ADDA2", "CPA2"}
    \/ last.o.impl \in {"JUMP2", "JZE2", "JMI2", "JPL2"} /\ last.o.step = 0

\* C6: the effective address is Mem[PC+1] + GR[x] when the low 4 bits x of
\* the instruction word are nonzero and Mem[PC+1] exactly when they are 0;
\* it is what LAD loads, where ST stores and where a jump goes.
C6_EffectiveAddress ==
    (Completed /\ UsesEffectiveAddress) =>
        /\ last.o.ea = C6_Expected
        /\ last.o.impl = "LAD2" => gr[PreR1] = C6_Expected
        /\ last.o.impl = "ST2" => getValueAt(memory, C6_Expected) = last.pre.gr[PreR1]
        /\ last.o.impl = "LD2" => gr[PreR1] = getValueAt(last.pre.memory, C6_Expected)
        /\ last.o.impl \in {"JUMP2", "JZE2", "JMI2", "JPL2"} => pc = C6_Expected

\* LAD through an index register that holds a nonzero value.
C6_Witness ==
    /\ Completed
    /\ last.o.impl = "LAD2"
    /\ PreR2 # 0
    /\ last.pre.gr[PreR2] # 0
    /\ gr[PreR1] = PreAddr + last.pre.gr[PreR2]

\* The unindexed form while GR0 holds a nonzero value.
C6_WitnessNoIndex ==
    /\ Completed
    /\ last.o.impl = "LAD2"
    /\ PreR2 = 0
    /\ last.pre.gr[0] > 0
    /\ gr[PreR1] = PreAddr

\* The result each flag-setting instruction computes, from the pre-step state.
C7_Result ==
    LET a == last.pre.gr[PreR1]
        m == getValueAt(last.pre.memory, C6_Expected)
    IN  CASE last.o.impl = "AND1" -> JsAnd(a, last.pre.gr[PreR2])
          [] last.o.impl = "AND2" -> JsAnd(a, m)
          [] last.o.impl = "LD1" -> last.pre.gr[PreR2]
          [] last.o.impl = "LD2" -> m
          [] last.o.impl = "SUBA1" -> JsSub(a, last.pre.gr[PreR2])
          [] last.o.impl = "ADDA2" -> JsAdd(a, m)
          [] last.o.impl = "CPA1" -> JsSub(a, last.pre.gr[PreR2])
          [] last.o.impl = "CPA2" -> JsSub(a, m)

SetsFlags == last.o.impl \in {"AND1", "AND2", "LD1", "LD2", "SUBA1", "ADDA2", "CPA1", "CPA2"}

\* C7: after AND, LD, SUBA, ADDA and CPA the flags (O,S,Z) are (0,0,0) when
\* the instruction's result is positive, (0,0,1) when it is zero and (0,1,0)
\* when it is negative.
C7_FlagsFromResult ==
    (Completed /\ SetsFlags /\ IsNumber(C7_Result)) =>
        /\ C7_Result > 0 => flags = [OF |-> 0, SF |-> 0, ZF |-> 0]
        /\ C7_Result = 0 => flags = [OF |-> 0, SF |-> 0, ZF |-> 1]
        /\ C7_Result < 0 => flags = [OF |-> 0, SF |-> 1, ZF |-> 0]

\* A zero result that replaces the flags of an earlier negative result.
C7_Witness ==
    /\ Completed
    /\ SetsFlags
    /\ C7_Result = 0
    /\ last.pre.flags.SF = 1
    /\ flags.ZF = 1

\* C8: LD (reg,reg) with r1, r2 in 0..7 and GR[r2] = b sets GR[r1] to b,
\* leaves every other register and all memory unchanged, sets the flags from
\* the sign of b and advances the program counter by 1.
C8_LoadRegister ==
    (/\ Returned
     /\ instructionNumber(last.pre) = MACHINE_INSTRUCTION_NUMBER.LD1
     /\ PreR1 \in 0..7
     /\ PreR2 \in 0..7)
    => /\ last.o.returns = "true"
       /\ gr[PreR1] = last.pre.gr[PreR2]
       /\ \A i \in (0..7) \ {PreR1} : gr[i] = last.pre.gr[i]
       /\ memory = last.pre.memory
       /\ IsNumber(last.pre.gr[PreR2]) =>
              flags = [OF |-> 0,
                       SF |-> IF last.pre.gr[PreR2] < 0 THEN 1 ELSE 0,
                       ZF |-> IF last.pre.gr[PreR2] = 0 THEN 1 ELSE 0]
       /\ pc = JsAdd(last.pre.pc, 1)

\* LD between two different registers that held different values.
C8_Witness ==
    /\ Completed
    /\ last.o.impl = "LD1"
    /\ PreR1 # PreR2
    /\ last.pre.gr[PreR1] # last.pre.gr[PreR2]
    /\ gr[PreR1] = gr[PreR2]
    /\ gr[PreR2] < 0

\* C9: CPA (both forms) changes only the flags and the program counter:
\* every general register and every memory word is as before.
C9_CompareFrame ==
    (Completed /\ last.o.impl \in {"CPA1", "CPA2"}) =>
        /\ gr = last.pre.gr
        /\ memory = last.pre.memory
        /\ out = last.pre.out

\* CPA of two registers that differ, which changes the flags.
C9_Witness ==
    /\ Completed
    /\ last.o.impl = "CPA1"
    /\ last.pre.gr[PreR1] # last.pre.gr[PreR2]
    /\ flags # last.pre.flags
    /\ gr = last.pre.gr

RetAtPC == instructionNumber(Cur) = MACHINE_INSTRUCTION_NUMBER.RET1

\* C2 as stated: a run of execute() on a program ending in RET terminates,
\* so that, given no input, it never comes back to a state it has already
\* passed through (from which it would repeat itself for ever), and a loop
\* that has terminated leaves the program counter on a RET word.
C2_AlwaysHalts ==
    (mode = "execute" /\ ref.inputs = <<>> /\ runState = "running") =>
        /\ \A i, j \in 1..Len(trace) : i < j => trace[i] # trace[j]
        /\ \A i \in 1..Len(trace) : trace[i] # Snapshot([ref.init EXCEPT !.pc = ref.begin])

\* C2, amended: an iteration of the loop of execute() ends the loop exactly
\* when the opcode at the program counter is RET, and it then leaves the
\* program counter on that RET word and everything else as it was.
C2_HaltsAtRET ==
    [][(mode = "execute" /\ mode' = "execute" /\ runState = "running") =>
          /\ (runState' = "halted") <=> RetAtPC
          /\ runState' = "halted" => (Cur' = Cur /\ RetAtPC')]_vars

\* execute() has halted on the RET word that ends the program, past address 0.
C2_Witness ==
    /\ mode = "execute"
    /\ runState = "halted"
    /\ Len(trace) > 1
    /\ RetAtPC
    /\ getValueAt(memory, JsAdd(pc, 1)) = undefined

\* C3 as stated: a call of executeNext() returns true after executing one
\* instruction whenever the opcode at the program counter is not RET, and
\* returns false leaving everything unchanged when it is RET.
C3_AsStated ==
    (last.call = "executeNext" /\ Returned) =>
        IF instructionNumber(last.pre) # MACHINE_INSTRUCTION_NUMBER.RET1
        THEN last.o.returns = "true" /\ last.o.evaluated = 1
        ELSE last.o.returns = "false" /\ Snapshot(Cur) = Snapshot(last.pre)

\* C3, amended: a call of executeNext() on an opcode other than RET either
\* executes exactly one instruction and returns true, or fails (unregistered
\* opcode, register index outside 0..7) and then changes nothing; on RET it
\* executes nothing, returns false and changes nothing, and so does every
\* later call.
C3_ExecuteNext ==
    (last.call = "executeNext" /\ Returned) =>
        /\ instructionNumber(last.pre) # MACHINE_INSTRUCTION_NUMBER.RET1 =>
              \/ /\ last.o.returns = "true"
                 /\ last.o.evaluated = 1
                 /\ trace # <<>>
                 /\ trace[Len(trace)] = Snapshot(Cur)
              \/ /\ last.o.returns = "throws"
                 /\ last.o.error \in {"UndefinedOpcode", "InvalidRegister", "TypeError"}
                 /\ Cur = last.pre
        /\ instructionNumber(last.pre) = MACHINE_INSTRUCTION_NUMBER.RET1 =>
              /\ last.o.returns = "false"
              /\ last.o.evaluated = 0
              /\ Cur = last.pre
              /\ runState = "halted"
        /\ last.afterHalt => last.o.returns = "false"

\* A call made after an earlier call has returned false, in a run that
\* executed instructions before it reached RET.
C3_Witness ==
    /\ last.call = "executeNext"
    /\ last.afterHalt
    /\ last.o.returns = "false"
    /\ Len(trace) > 1

\* The state execute() ended in.
RefFinal == IF ref.trace = <<>> THEN Snapshot([ref.init EXCEPT !.pc = ref.begin])
            ELSE ref.trace[Len(ref.trace)]

\* C4: awaited calls of executeNext() pass through the states execute()
\* passed through from the same Word Store, Register File, inputs and start
\* address, and end where it ended.
C4_SameRun ==
    mode = "interactive" =>
        /\ Len(trace) <= Len(ref.trace)
        /\ trace = SubSeq(ref.trace, 1, Len(trace))
        /\ runState = "halted" =>
              ref.end = "halted" /\ trace = ref.trace /\ Snapshot(Cur) = RefFinal
        /\ (Returned /\ last.o.returns = "throws") =>
              ref.end = "failed" /\ trace = ref.trace /\ Snapshot(Cur) = RefFinal
        /\ (ref.end = "halted" /\ trace = ref.trace) => RetAtPC
        /\ runState = "awaitInput" => ref.used < Len(ref.inputs)

\* The interactive run has ended where execute() ended, after a line of
\* input and more than one instruction.
C4_Witness ==
    /\ mode = "interactive"
    /\ runState = "halted"
    /\ ref.end = "halted"
    /\ ref.used = 1
    /\ ref.inputs # <<<<>>>>
    /\ Len(trace) > 1
    /\ trace = ref.trace

\* What the latest call passed to io.out.
Emitted == SubSeq(out, Len(last.pre.out) + 1, Len(out))

SvcOutput == Completed /\ last.o.impl = "SVC2" /\ PreR2 = 2

\* D = Mem[PC+1], L = Mem[PC+2], n = Mem[L], in the pre-step state.
PreD == getValueAt(last.pre.memory, JsAdd(last.pre.pc, 1))

PreL == getValueAt(last.pre.memory, JsAdd(last.pre.pc, 2))

PreN == getValueAt(last.pre.memory, PreL)

PreCount == IF IsNumber(PreN) /\ PreN > 0 THEN PreN ELSE 0

C10_WitnessModulo ==
    /\ SvcOutput
    /\ PreN = 2
    /\ getValueAt(last.pre.memory, PreD + 1) = -1
    /\ Emitted[2].chars[2] = 65535

(***************************************************************************)
(* SVC input                                                               *)
(***************************************************************************)
SvcInput == Completed /\ last.o.impl = "SVC2" /\ PreR2 = 1

\* The line io.in() delivered to the latest call.
PreInput == last.o.input

\* C11 as stated: after SVC input of a line s of length n, Mem[D+i] is the
\* code of s[i] for every 0 <= i < n, Mem[L] is n, and the program counter
\* has advanced by 3.
C11_AsStated ==
    SvcInput =>
        /\ \A i \in 0..(Len(PreInput) - 1) :
              getValueAt(memory, JsAdd(PreD, i)) = PreInput[i + 1]
        /\ getValueAt(memory, PreL) = Len(PreInput)
        /\ pc = JsAdd(last.pre.pc, 3)

\* C11, amended: after SVC input of a line s of length n, with D = Mem[PC+1]
\* a number, Mem[L] is n and Mem[D+i] is the code of s[i] for every
\* 0 <= i < n with D+i # L (the length is written last, over a character
\* stored at L); every other word, every register and the flags are
\* unchanged and the program counter has advanced by 3.
C11_Input ==
    (SvcInput /\ IsNumber(PreD)) =>
        /\ getValueAt(memory, PreL) = Len(PreInput)
        /\ \A i \in 0..(Len(PreInput) - 1) :
              JsAdd(PreD, i) # PreL => getValueAt(memory, JsAdd(PreD, i)) = PreInput[i + 1]
        /\ \A a \in (DOMAIN memory) \cup (DOMAIN last.pre.memory) :
              (a # PreL /\ a \notin {PreD + i : i \in 0..(Len(PreInput) - 1)}) =>
                  getValueAt(memory, a) = getValueAt(last.pre.memory, a)
        /\ gr = last.pre.gr
        /\ flags = last.pre.flags
        /\ pc = JsAdd(last.pre.pc, 3)

\* The line "hi" stored where the length word lies on its second character.
C11_Witness ==
    /\ SvcInput
    /\ PreInput = <<104, 105>>
    /\ PreL = PreD + 1
    /\ getValueAt(memory, PreD) = 104
    /\ getValueAt(memory, PreL) = 2

\* The line "hi" stored clear of the length word.
C11_WitnessApart ==
    /\ SvcInput
    /\ PreInput = <<104, 105>>
    /\ PreL = PreD + 2
    /\ getValueAt(memory, PreD) = 104
    /\ getValueAt(memory, PreD + 1) = 105
    /\ getValueAt(memory, PreL) = 2

(***************************************************************************)
(* The line driver                                                         *)
(***************************************************************************)
\* The instruction steps that have started and have not completed: those
\* waiting to be resumed and those suspended in io.in().
InFlight ==
    Cardinality({i \in 1..Len(driver.queue) : driver.queue[i].stage # "close"})
        + Cardinality(driver.suspended)

\* C12: a line that arrives while a step is suspended in SVC input is
\* consumed as that input and starts no call of executeNext(), and a line
\* starts a call of executeNext() only when no step is in flight, so that at
\* most one step is in flight at any time.
C12_OneStepInFlight ==
    [][(mode = "driver" /\ driver'.lines = driver.lines + 1) =>
          /\ driver.inputFunc # 0 =>
                (driver'.started = driver.started /\ driver'.inputFunc = 0)
          /\ driver'.started # driver.started => InFlight = 0
          /\ InFlight' <= 1]_vars

\* Two steps are in flight: a second line of the same chunk has started a
\* call before the first call was resumed.
C12_TwoInFlight == mode = "driver" /\ InFlight = 2

(***************************************************************************)
(* Word Store default, flags, jumps                                        *)
(***************************************************************************)
\* C15: reading a Word Store address that was never set returns 0; LD from
\* such an address loads 0 and sets the zero flag.
C15_UnsetReadsZero ==
    (Completed /\ last.o.impl = "LD2" /\ C6_Expected \notin DOMAIN last.pre.memory) =>
        (gr[PreR1] = 0 /\ flags = registerSetFlags(0, 0, 1))

\* LD from an address that nothing has written.
C15_UnsetLoaded ==
    /\ Completed
    /\ last.o.impl = "LD2"
    /\ C6_Expected = DataBase + 3
    /\ C6_Expected \notin DOMAIN last.pre.memory
    /\ gr[PreR1] = undefined
    /\ flags = registerSetFlags(0, 1, 0)

\* C16: the flag triple (O,S,Z) is always one of (0,0,0), (0,0,1), (0,1,0),
\* so exactly one of the conditions of JPL, JZE and JMI holds.
C16_FlagTriples ==
    /\ <<flags.OF, flags.SF, flags.ZF>> \in {<<0, 0, 0>>, <<0, 0, 1>>, <<0, 1, 0>>}
    /\ Cardinality({c \in {"JPL", "JZE", "JMI"} :
                       \/ c = "JPL" /\ flags.SF = 0 /\ flags.ZF = 0
                       \/ c = "JZE" /\ flags.ZF = 1
                       \/ c = "JMI" /\ flags.SF = 1}) = 1

\* The zero triple, set by an instruction that followed one of another triple.
C16_Witness ==
    /\ Completed
    /\ last.pre.flags = registerSetFlags(0, 1, 0)
    /\ flags = registerSetFlags(0, 0, 1)

\* The condition of the conditional jump the latest call dispatched to, on
\* the flags it started from.
JumpCondition ==
    CASE last.o.impl = "JZE2" -> last.pre.flags.ZF = 1
      [] last.o.impl = "JMI2" -> last.pre.flags.SF = 1
      [] last.o.impl = "JPL2" -> last.pre.flags.SF = 0 /\ last.pre.flags.ZF = 0
      [] OTHER -> FALSE

ConditionalJump == Returned /\ last.o.impl \in {"JZE2", "JMI2", "JPL2"}

\* C17: JZE, JMI and JPL transfer control exactly when their condition
\* holds: the program counter after the step is then the jump target and
\* otherwise the pre-step program counter plus 2; registers, flags and
\* memory are unchanged.  (A taken jump through an index field that names no
\* register fails and changes nothing.)
C17_ConditionalJumps ==
    ConditionalJump =>
        /\ ~JumpCondition => (Completed /\ pc = JsAdd(last.pre.pc, 2))
        /\ (JumpCondition /\ Completed) => pc = C6_Expected
        /\ (JumpCondition /\ ~Completed) =>
              (last.o.returns = "throws" /\ PreR2 \notin GENERAL_REGISTER_NAMES
               /\ pc = last.pre.pc)
        /\ gr = last.pre.gr
        /\ flags = last.pre.flags
        /\ memory = last.pre.memory

\* JZE taken with the zero flag set by the instruction before it.
C17_Witness ==
    /\ Completed
    /\ last.o.impl = "JZE2"
    /\ last.pre.flags.ZF = 1
    /\ PreAddr = DataBase
    /\ pc = DataBase
    /\ last.pre.pc # 0

\* JMI not taken.
C17_WitnessFallThrough ==
    /\ Completed
    /\ last.o.impl = "JMI2"
    /\ last.pre.flags.SF = 0
    /\ pc = last.pre.pc + 2

\* C18: the target of JUMP, and of JZE, JMI and JPL when taken, is the
\* address operand Mem[PC+1] plus the index register when the low 4 bits of
\* the instruction word are nonzero, and the address operand alone when
\* they are 0.
C18_JumpTarget ==
    (Completed /\ (last.o.impl = "JUMP2" \/ (ConditionalJump /\ JumpCondition))) =>
        /\ PreR2 # 0 => pc = JsAdd(getValueAt(last.pre.memory, JsAdd(last.pre.pc, 1)),
                                  last.pre.gr[PreR2])
        /\ PreR2 = 0 => pc = getValueAt(last.pre.memory, JsAdd(last.pre.pc, 1))

\* JUMP through an index register that holds 1.
C18_Witness ==
    /\ Completed
    /\ last.o.impl = "JUMP2"
    /\ PreR2 = 1
    /\ last.pre.gr[1] = 1
    /\ pc = PreAddr + 1

(***************************************************************************)
(* The assembler                                                           *)
(***************************************************************************)
Compiling == mode = "compile"

\* The word count of a line as documented: START and END take no word, DC
\* and DS one, a machine instruction two when one of its two leading
\* operands is an address or a label and one otherwise.
WordCount(args) ==
    IF args[2] \in {"START", "END"} THEN 0
    ELSE IF args[2] \in {"DC", "DS"} THEN 1
    ELSE IF \E k \in {3, 4} :
                args[k] # "" /\ args[k] \notin {GeneralRegisterTokens[i] : i \in 1..8}
         THEN 2 ELSE 1

RECURSIVE SumWords(_, _)
\* The sum of the word counts of the first n lines of a source.
SumWords(source, n) ==
    IF n = 0 THEN 0 ELSE SumWords(source, n - 1) + WordCount(source[n])

\* The address of line j of the source being compiled.
LineAddress(j) == compiler.beginAddr + SumWords(compiler.source, j - 1)

\* The lines, among those pass 1 has reached, that declare a label.
Declarations(label) ==
    {j \in 1..compiler.index : compiler.source[j][1] = label}

\* The latest of them.
LastDeclaration(label) ==
    CHOOSE j \in Declarations(label) : \A k \in Declarations(label) : k <= j

\* C19: in pass 1 every line is emitted at the base address plus the sum of
\* the word counts of the lines before it (START and END 0 words, DC and DS
\* 1 word, a machine instruction 2 words with an address-or-label operand
\* and 1 word without), the line takes the documented number of words, and
\* a label is bound to the address of the line that declares it.
C19_LineAddresses ==
    Compiling =>
        /\ \A j \in 1..Len(compiler.allocated) :
              /\ compiler.allocated[j].address = LineAddress(j)
              /\ compiler.allocated[j].words = WordCount(compiler.source[j])
        /\ compiler.phase # "failed" => compiler.currentAddress = LineAddress(compiler.index + 1)
        /\ \A j \in 1..compiler.index :
              compiler.source[j][1] # "" =>
                  /\ compiler.source[j][1] \in DOMAIN compiler.labelToAddrMap
                  /\ compiler.labelToAddrMap[compiler.source[j][1]]
                        = LineAddress(LastDeclaration(compiler.source[j][1]))
        /\ \A l \in DOMAIN compiler.labelToAddrMap : Declarations(l) # {}

\* C19 witness: from base 1, pass 1 has emitted START (no word), a labelled
\* DC (one word, at 1) and a two-word instruction (at 2).
C19_Witness ==
    /\ Compiling
    /\ compiler.beginAddr = 1
    /\ Len(compiler.allocated) = 3
    /\ compiler.source[1][2] = "START"
    /\ compiler.source[2] = <<"L1", "DC", "7", "", "">>
    /\ compiler.source[3] = <<"", "JUMP", "L1", "", "">>
    /\ compiler.allocated[3] = [address |-> 2, words |-> 2]
    /\ compiler.labelToAddrMap["L1"] = 1
    /\ compiler.currentAddress = 4

\* The machine instructions of the source that have an address operand.
References ==
    {j \in 1..Len(compiler.source) :
        ~isPseudoInstruction(compiler.source[j]) /\ hasAddrValue(compiler.source[j])}

\* C13: after compile() has succeeded, the word after the first word of
\* every machine instruction with a label operand is the address pass 1
\* bound to that label, wherever in the source the label is declared.
C13_LabelsResolved ==
    (Compiling /\ compiler.phase = "done") =>
        \A j \in References :
            LET label == extractAddrRawValue(compiler.source[j])
            IN  /\ Declarations(label) # {}
                /\ getValueAt(memory, LineAddress(j) + 1) = LineAddress(LastDeclaration(label))
                /\ getValueAt(memory, LineAddress(j) + 1) = compiler.labelToAddrMap[label]

\* C13 witness: JUMP L1 at address 0 with L1 declared later, at address 10,
\* has been assembled with the address operand 10.
C13_Witness ==
    /\ Compiling
    /\ compiler.phase = "done"
    /\ compiler.source = ForwardReference
    /\ compiler.beginAddr = 0
    /\ compiler.labelToAddrMap["L1"] = 10
    /\ getValueAt(memory, 0) = 100 * 256
    /\ getValueAt(memory, 1) = 10

\* C13 witness: a reference to a label declared on an earlier line.
C13_WitnessBackward ==
    /\ Compiling
    /\ compiler.phase = "done"
    /\ compiler.beginAddr = 1
    /\ compiler.source = <<(<<"L1", "DC", "7", "", "">>), (<<"", "LD", "GR1", "L1", "GR2">>)>>
    /\ getValueAt(memory, 2) = 16 * 256 + 16 + 2
    /\ getValueAt(memory, 3) = 1

\* The recorded pair pass 2 is at, or stopped at.
CurrentEntry == compiler.labelAddrsToReplace[compiler.solved + 1]

\* C14: pass 2 fails with UndefinedLabel for a recorded pair only when the
\* label of the pair is missing from the Label Table; a label bound in
\* pass 1 is resolved whatever the address it was bound at.
C14_FailsOnlyWhenMissing ==
    (Compiling /\ compiler.phase = "failed" /\ compiler.error = "UndefinedLabel") =>
        CurrentEntry[2] \notin DOMAIN compiler.labelToAddrMap

\* C14: pass 2 fails with UndefinedLabel for the label of a recorded pair
\* that is missing from the Label Table.
C14_FailsWhenMissing ==
    (Compiling /\ compiler.phase \in {"pass2", "done"}) =>
        \A k \in 1..compiler.solved :
            compiler.labelAddrsToReplace[k][2] \in DOMAIN compiler.labelToAddrMap

\* C14: a label bound at address 0 is reported undefined.
C14_BoundAtZeroFails ==
    /\ Compiling
    /\ compiler.phase = "failed"
    /\ compiler.error = "UndefinedLabel"
    /\ compiler.beginAddr = 0
    /\ compiler.source = <<(<<"L1", "JUMP", "L1", "", "">>)>>
    /\ compiler.labelToAddrMap["L1"] = 0
    /\ getValueAt(memory, 1) = 0

\* The lines pass 1 has emitted that are machine instructions with an
\* address operand.
Emitted2 ==
    {j \in 1..Len(compiler.allocated) :
        ~isPseudoInstruction(compiler.source[j]) /\ compiler.allocated[j].words = 2}

\* The address operand of line j as written, and whether it is a numeral.
Operand(j) == extractAddrRawValue(compiler.source[j])

IsLiteral(token) == IsNumber(Number(token))

\* The pairs recorded in the Unresolved Reference List.
Recorded == {compiler.labelAddrsToReplace[k] : k \in 1..Len(compiler.labelAddrsToReplace)}

\* C20: when pass 1 has emitted a machine instruction whose address operand
\* is a numeral, the second word of the instruction holds that number from
\* then on and the Unresolved Reference List has no pair for it; the pairs
\* of the list are those of the symbolic operands.
C20_LiteralImmediate ==
    Compiling =>
        \A j \in Emitted2 :
            IF IsLiteral(Operand(j))
            THEN /\ getValueAt(memory, compiler.allocated[j].address + 1) = Number(Operand(j))
                 /\ \A e \in Recorded : e[1] # compiler.allocated[j].address + 1
            ELSE <<compiler.allocated[j].address + 1, Operand(j)>> \in Recorded

\* C20: a symbolic operand gets a recorded pair, and the placeholder 0 until
\* pass 2 reaches the pair.
C20_SymbolicRecorded ==
    (Compiling /\ compiler.phase = "pass1") =>
        \A j \in Emitted2 :
            ~IsLiteral(Operand(j)) =>
                /\ <<compiler.allocated[j].address + 1, Operand(j)>> \in Recorded
                /\ getValueAt(memory, compiler.allocated[j].address + 1) = 0

\* C20: JUMP 10 has been emitted with the second word 0 and the pair
\* (address + 1, "10"), and pass 2 has failed on it.
C20_LiteralTakenForLabel ==
    /\ Compiling
    /\ compiler.source = <<(<<"", "JUMP", "10", "", "">>)>>
    /\ compiler.beginAddr = 0
    /\ getValueAt(memory, 1) = 0
    /\ compiler.labelAddrsToReplace = <<(<<1, "10">>)>>
    /\ compiler.phase = "failed"
    /\ compiler.error = "UndefinedLabel"

\* The machine as it would stand at address a of the Word Store.
At(a) == [Cur EXCEPT !.pc = a]

\* The lines pass 1 has emitted that are machine instructions.
EmittedInstructions ==
    {j \in 1..Len(compiler.allocated) : ~isPseudoInstruction(compiler.source[j])}

\* The number of a register as written.
RegisterNumber(token) == CHOOSE n \in 0..7 : GeneralRegisterTokens[n + 1] = token

IsRegister(token) == \E n \in 0..7 : GeneralRegisterTokens[n + 1] = token

\* The first register operand of a line: its first operand when that is a
\* register; 0 when the line has none.
FirstRegister(args) == IF IsRegister(args[3]) THEN RegisterNumber(args[3]) ELSE 0

\* The second or index register operand of a line: the first register
\* among the operands after the first; 0 when the line has none.
SecondRegister(args) ==
    IF IsRegister(args[4]) THEN RegisterNumber(args[4])
    ELSE IF IsRegister(args[5]) THEN RegisterNumber(args[5])
    ELSE 0

\* The first word of emitted line j is c * 256 + i * 16 + k, and the engine
\* decodes c, i and k from it.
RoundTrip(j, c, i, k) ==
    LET a == compiler.allocated[j].address
    IN  /\ getValueAt(memory, a) = c * 256 + i * 16 + k
        /\ instructionNumber(At(a)) = c
        /\ gR1Value(At(a)) = i
        /\ gR2OrIRValue(At(a)) = k

\* C21: the first word the assembler builds for a machine instruction is
\* opcode * 256 + i * 16 + j for the first register operand GRi and the
\* second or index register operand GRj, an absent register operand giving
\* 0 in its field, and the engine decodes the opcode, i and j from it.
C21_RoundTrip ==
    Compiling =>
        \A j \in EmittedInstructions :
            RoundTrip(j, MnemonicNumber[compiler.source[j][2]],
                      FirstRegister(compiler.source[j]), SecondRegister(compiler.source[j]))

\* C21: the same for the lines whose first operand is a register; in the
\* others the low field is 0.
C21_RegisterFirst ==
    Compiling =>
        \A j \in EmittedInstructions :
            RoundTrip(j, MnemonicNumber[compiler.source[j][2]],
                      FirstRegister(compiler.source[j]),
                      IF IsRegister(compiler.source[j][3])
                      THEN SecondRegister(compiler.source[j]) ELSE 0)

\* C21: LD GR7,L1,GR5 has been emitted as 0x1075.
C21_Encoded ==
    /\ Compiling
    /\ compiler.source = <<(<<"", "LD", "GR7", "L1", "GR5">>)>>
    /\ Len(compiler.allocated) = 1
    /\ getValueAt(memory, compiler.beginAddr) = 16 * 256 + 7 * 16 + 5
    /\ gR1Value(At(compiler.beginAddr)) = 7
    /\ gR2OrIRValue(At(compiler.beginAddr)) = 5

\* C21: JUMP L1,GR2 has been emitted as 0x6400, without its index register.
C21_IndexDropped ==
    /\ Compiling
    /\ compiler.source = <<(<<"", "JUMP", "L1", "GR2", "">>)>>
    /\ Len(compiler.allocated) = 1
    /\ getValueAt(memory, compiler.beginAddr) = 100 * 256
    /\ gR2OrIRValue(At(compiler.beginAddr)) = 0

(***************************************************************************)
(* Instances and shared handlers                                           *)
(***************************************************************************)
Sharing == mode = "shared" /\ shared.last.by # 0

\* C22: a step reads and writes only the Word Store and Register File of
\* the instance that started it: it leaves the other instance as it was,
\* and the rest of an SVC input stores the line where the words of its own
\* instance say, also when the other instance has used the SVC2 object
\* while the call was suspended.
C22_OwnStores ==
    Sharing =>
        /\ \A n \in Instances :
              n # shared.last.by => shared.machine[n] = shared.last.pre[n]
        /\ shared.last.kind = "resume" =>
              shared.machine[shared.last.by].memory
                  = SVC2_resume(shared.last.pre[shared.last.by], shared.last.value).memory

\* C22: as long as the SVC2 object is bound to the instance that resumes,
\* the step stays within that instance.
C22_WhenBoundToItself ==
    (Sharing /\ shared.bound = shared.last.by) => C22_OwnStores

\* C22: the suspended input of instance 1 resumed after instance 2 had set
\* the SVC2 object up; the line went to the Word Store of instance 2, at the
\* address its words name, and instance 1 holds nothing of it.
C22_WroteTheOther ==
    /\ Sharing
    /\ shared.last = [by |-> 1, kind |-> "resume", value |-> <<104, 105>>,
                      pre |-> shared.last.pre]
    /\ shared.bound = 2
    /\ shared.machine[1].memory = shared.last.pre[1].memory
    /\ shared.machine[2].memory # shared.last.pre[2].memory
    /\ shared.machine[1].pc = shared.last.pre[1].pc + 3

(***************************************************************************)
(* Register indices                                                        *)
(***************************************************************************)
\* The register indices the latest instruction asked the Register File for:
\* both fields in the register-register forms; the first field, and the
\* index field when it is not 0, in the register-memory forms; the index
\* field, when it is not 0, of a jump that is taken.
Accessed ==
    LET index == IF PreR2 # 0 THEN {PreR2} ELSE {}
    IN  CASE last.o.impl \in {"AND1", "LD1", "SUBA1", "CPA1"} -> {PreR1, PreR2}
          [] last.o.impl \in {"AND2", "LD2", "LAD2", "ST2", "ADDA2", "CPA2"} -> {PreR1} \cup index
          [] last.o.impl = "JUMP2" -> index
          [] last.o.impl \in {"JZE2", "JMI2", "JPL2"} -> IF JumpCondition THEN index ELSE {}
          [] OTHER -> {}

\* C23: an instruction that accesses a general register whose index, taken
\* from a 4-bit field of the instruction word, is in 8..15 fails with
\* InvalidRegister, and the failed step leaves the general registers, the
\* flags, the program counter and every memory word as they were.
C23_InvalidRegister ==
    (Returned /\ Accessed \cap (8..15) # {}) =>
        /\ last.o.returns = "throws"
        /\ last.o.error = "InvalidRegister"
        /\ gr = last.pre.gr
        /\ flags = last.pre.flags
        /\ pc = last.pre.pc
        /\ memory = last.pre.memory

\* C23 witness: ST GR1,8,GR15 has failed after LAD GR1,1 had changed a
\* register.
C23_Witness ==
    /\ Returned
    /\ last.o.impl = "ST2"
    /\ PreR1 = 1
    /\ PreR2 = 15
    /\ last.o.error = "InvalidRegister"
    /\ last.pre.pc = 2
    /\ gr[1] = 1

\* C23 witness: LD GR8,GR1 fails on the register it is to write.
C23_WitnessWrite ==
    /\ Returned
    /\ last.o.impl = "LD1"
    /\ PreR1 = 8
    /\ PreR2 = 1
    /\ last.o.error = "InvalidRegister"

====
